---- MODULE Spec2Model ----
(***************************************************************************)
(* Model of IntervalTree<T, V> (src/IntervalTree.h) with T a signed        *)
(* integer type (two's complement, T_BITS wide, division truncating        *)
(* toward zero).  Every value of T is a coordinate, so the sums the code   *)
(* forms can leave the type.                                               *)
(* (With a floating-point T the same sums overflow to an infinity, which   *)
(* puts the center outside the covered range in the same way.)             *)
(* Nodes live in a heap addressed by node ids (the unique_ptr targets);    *)
(* a tree object is its root_ pointer.  Vector positions are 1-based here  *)
(* (position i stands for the C++ index i-1).                              *)
(***************************************************************************)
EXTENDS Integers, Sequences, FiniteSets, TLC

VARIABLES alive, root_, heap, stored, copyOf, result, held, last, fault

vars == <<alive, root_, heap, stored, copyOf, result, held, last, fault>>

\* ---------------------------------------------------------------- bounds
MaxEntries == 2
MaxBuildLen == 2

\* ------------------------------------------------------------- constants
NULL == 0
\* the coordinate type T
T_BITS == 2
\* std::numeric_limits<T>::max() and lowest()
T_MAX == 2 ^ (T_BITS - 1) - 1
T_LOWEST == -T_MAX - 1
DIVERGED == -1
\* the address of a node that has been released
FREED == -2

Trees == {"A", "B"}
TreeOrder == <<"A", "B">>
Coord == T_LOWEST..T_MAX
Values == {0}
Entry == [start : Coord, end : Coord, value : Values]
ValidEntry == {e \in Entry : e.end > e.start}
NoResult == [t |-> "none", val |-> 0, results_ |-> <<>>]

SeqsUpTo(S, n) == UNION {[1..k -> S] : k \in 0..n}

Min(a, b) == IF a < b THEN a ELSE b
Max(a, b) == IF a > b THEN a ELSE b

\* integer division of C++: truncation toward zero
TruncDiv2(n) == IF n >= 0 THEN n \div 2 ELSE -((-n) \div 2)

\* a + b in T leaves the type: signed overflow, undefined behaviour
Overflows(a, b) == a + b \notin T_LOWEST..T_MAX
\* the value a build without overflow trapping computes: it wraps around
WrapT(n) == ((n - T_LOWEST) % (2 ^ T_BITS)) + T_LOWEST

\* ------------------------------------------------------------------ heap
NewId(h) == CHOOSE i \in 1..(Cardinality(DOMAIN h) + 1) :
                /\ i \notin DOMAIN h
                /\ \A j \in 1..(i - 1) : j \in DOMAIN h

Alloc(h, n) == [i \in DOMAIN h \cup {NewId(h)} |-> IF i \in DOMAIN h THEN h[i] ELSE n]

RECURSIVE Reach(_, _)
Reach(h, id) == IF id = NULL THEN {}
                ELSE {id} \cup Reach(h, h[id].left_) \cup Reach(h, h[id].right_)

\* unique_ptr<TreeNode> destruction: the node and all it owns
Free(h, id) == [i \in DOMAIN h \ Reach(h, id) |-> h[i]]

\* ------------------------------------------------------- TreeNode::sort
IntervalComp(center, sort_by_start, a, b) ==
    IF sort_by_start THEN center[a].start < center[b].start
                     ELSE center[a].end < center[b].end

\* std::sort on fewer than 16 elements is an insertion sort: each element
\* moves toward the front while it compares less than its predecessor.
RECURSIVE LinearInsert(_, _, _, _)
LinearInsert(s, i, center, sort_by_start) ==
    IF s = <<>> THEN <<i>>
    ELSE LET p == s[Len(s)]
         IN IF IntervalComp(center, sort_by_start, i, p)
            THEN Append(LinearInsert(SubSeq(s, 1, Len(s) - 1), i, center, sort_by_start), p)
            ELSE Append(s, i)

RECURSIVE StdSort(_, _, _, _)
StdSort(idx, k, center, sort_by_start) ==
    IF k = 0 THEN <<>>
    ELSE LinearInsert(StdSort(idx, k - 1, center, sort_by_start), idx[k], center, sort_by_start)

Iota(idx, m) == idx \o [i \in 1..(m - Len(idx)) |-> Len(idx) + i]

\* a sort() that extends the index arrays and leaves them unordered
NodeSortMut(n) ==
    LET m == Len(n.center_)
    IN [n EXCEPT !.index_sorted_by_start_ = Iota(n.index_sorted_by_start_, m),
                 !.index_sorted_by_end_ = Iota(n.index_sorted_by_end_, m)]

NodeSort(n) ==
    LET m == Len(n.center_)
        grow == Len(n.index_sorted_by_start_) < m
        s0 == IF grow THEN Iota(n.index_sorted_by_start_, m) ELSE n.index_sorted_by_start_
        e0 == IF grow THEN Iota(n.index_sorted_by_end_, m) ELSE n.index_sorted_by_end_
    IN [n EXCEPT !.index_sorted_by_start_ = StdSort(s0, Len(s0), n.center_, TRUE),
                 !.index_sorted_by_end_ = StdSort(e0, Len(e0), n.center_, FALSE)]

EmptyNode == [x_center_ |-> 0, center_ |-> <<>>, index_sorted_by_start_ |-> <<>>,
              index_sorted_by_end_ |-> <<>>, left_ |-> NULL, right_ |-> NULL]

\* ------------------------------------- TreeNode(ForwardIt, ForwardIt)
RECURSIVE FoldMinStart(_, _)
FoldMinStart(es, k) == IF k = 0 THEN T_MAX ELSE Min(FoldMinStart(es, k - 1), es[k].start)

RECURSIVE FoldMaxEnd(_, _)
FoldMaxEnd(es, k) == IF k = 0 THEN T_LOWEST ELSE Max(FoldMaxEnd(es, k - 1), es[k].end)

\* the midpoint without the degeneracy guard
CenterMut(t_min, t_max) == TruncDiv2(WrapT(t_min + t_max))

Center(t_min, t_max) ==
    LET mid == TruncDiv2(WrapT(t_min + t_max))
    IN IF mid = t_max THEN t_min ELSE mid

GoesLeft(e, x) == e.end <= x
GoesRight(e, x) == ~GoesLeft(e, x) /\ e.start > x

LeftPart(es, x) == SelectSeq(es, LAMBDA e : GoesLeft(e, x))
RightPart(es, x) == SelectSeq(es, LAMBDA e : GoesRight(e, x))
CenterPart(es, x) == SelectSeq(es, LAMBDA e : ~GoesLeft(e, x) /\ ~GoesRight(e, x))

\* The recursion never returns when a child receives the very input of its
\* parent (the same call repeats until the stack is exhausted): DIVERGED.
\* ub: t_min + t_max overflowed in some node constructed so far.
RECURSIVE TreeNodeBuild(_, _)
TreeNodeBuild(h, es) ==
    LET t_min == FoldMinStart(es, Len(es))
        t_max == FoldMaxEnd(es, Len(es))
        x == Center(t_min, t_max)
        ub == Overflows(t_min, t_max)
        left == LeftPart(es, x)
        right == RightPart(es, x)
        id == NewId(h)
        h0 == Alloc(h, NodeSort([EmptyNode EXCEPT !.x_center_ = x, !.center_ = CenterPart(es, x)]))
    IN IF es # <<>> /\ (left = es \/ right = es) THEN [h |-> h, id |-> DIVERGED, ub |-> ub]
       ELSE LET L == IF left = <<>> THEN [h |-> h0, id |-> NULL, ub |-> FALSE]
                     ELSE TreeNodeBuild(h0, left)
            IN IF L.id = DIVERGED THEN [h |-> h, id |-> DIVERGED, ub |-> ub \/ L.ub]
               ELSE LET h1 == [L.h EXCEPT ![id].left_ = L.id]
                        R == IF right = <<>> THEN [h |-> h1, id |-> NULL, ub |-> FALSE]
                             ELSE TreeNodeBuild(h1, right)
                    IN IF R.id = DIVERGED THEN [h |-> h, id |-> DIVERGED, ub |-> ub \/ L.ub \/ R.ub]
                       ELSE [h |-> [R.h EXCEPT ![id].right_ = R.id], id |-> id,
                             ub |-> ub \/ L.ub \/ R.ub]

\* ------------------------------------ TreeNode(const Interval&, const V&)
Leaf(e) == [x_center_ |-> Center(e.start, e.end), center_ |-> <<e>>,
            index_sorted_by_start_ |-> <<1>>, index_sorted_by_end_ |-> <<1>>,
            left_ |-> NULL, right_ |-> NULL]

\* ------------------------------------------------------ TreeNode::insert
\* an insert whose first test reads interval.start where it should read
\* interval.end
RECURSIVE TreeNodeInsertMut(_, _, _)
TreeNodeInsertMut(h, id, e) ==
    IF e.start <= h[id].x_center_
    THEN IF h[id].left_ # NULL THEN TreeNodeInsertMut(h, h[id].left_, e)
         ELSE [Alloc(h, Leaf(e)) EXCEPT ![id].left_ = NewId(h)]
    ELSE IF e.start > h[id].x_center_
    THEN IF h[id].right_ # NULL THEN TreeNodeInsertMut(h, h[id].right_, e)
         ELSE [Alloc(h, Leaf(e)) EXCEPT ![id].right_ = NewId(h)]
    ELSE [h EXCEPT ![id] = NodeSort([h[id] EXCEPT !.center_ = Append(h[id].center_, e)])]

RECURSIVE TreeNodeInsert(_, _, _)
TreeNodeInsert(h, id, e) ==
    IF e.end <= h[id].x_center_
    THEN IF h[id].left_ # NULL THEN TreeNodeInsert(h, h[id].left_, e)
         ELSE [Alloc(h, Leaf(e)) EXCEPT ![id].left_ = NewId(h)]
    ELSE IF e.start > h[id].x_center_
    THEN IF h[id].right_ # NULL THEN TreeNodeInsert(h, h[id].right_, e)
         ELSE [Alloc(h, Leaf(e)) EXCEPT ![id].right_ = NewId(h)]
    ELSE [h EXCEPT ![id] = NodeSort([h[id] EXCEPT !.center_ = Append(h[id].center_, e)])]

\* ------------------------------------------------------- TreeNode::query
\* a result element is a pointer to center_[idx] of a node
Ptr(id, i) == [node |-> id, idx |-> i]

RECURSIVE ScanByStart(_, _, _, _)
ScanByStart(h, id, val, k) ==
    LET ix == h[id].index_sorted_by_start_
    IN IF k > Len(ix) THEN <<>>
       ELSE IF h[id].center_[ix[k]].start <= val
            THEN <<Ptr(id, ix[k])>> \o ScanByStart(h, id, val, k + 1)
            ELSE <<>>

RECURSIVE ScanByEnd(_, _, _, _)
ScanByEnd(h, id, val, k) ==
    LET ix == h[id].index_sorted_by_end_
    IN IF k < 1 THEN <<>>
       ELSE IF h[id].center_[ix[k]].end > val
            THEN <<Ptr(id, ix[k])>> \o ScanByEnd(h, id, val, k - 1)
            ELSE <<>>

\* if (val <= x_center_)
TakesStartBranch(val, x) == val <= x

RECURSIVE TreeNodeQuery(_, _, _)
TreeNodeQuery(h, id, val) ==
    IF TakesStartBranch(val, h[id].x_center_)
    THEN ScanByStart(h, id, val, 1)
         \o (IF h[id].left_ # NULL THEN TreeNodeQuery(h, h[id].left_, val) ELSE <<>>)
    ELSE ScanByEnd(h, id, val, Len(h[id].index_sorted_by_end_))
         \o (IF h[id].right_ # NULL THEN TreeNodeQuery(h, h[id].right_, val) ELSE <<>>)

\* IntervalTree::query
TreeQuery(h, r, val) == IF r # NULL THEN TreeNodeQuery(h, r, val) ELSE <<>>

\* ------------------------------------------------------- TreeNode::clone
\* a clone that copies the node and keeps pointing at the source's children
CloneMut(h, id) == [h |-> Alloc(h, h[id]), id |-> NewId(h)]

RECURSIVE Clone(_, _)
Clone(h, id) ==
    LET new == NewId(h)
        h0 == Alloc(h, [h[id] EXCEPT !.left_ = NULL, !.right_ = NULL])
        \* root->left_ = make_unique<TreeNode>(); root->left_ = left_->clone();
        tmpL == NewId(h0)
        L == IF h[id].left_ = NULL THEN [h |-> h0, id |-> NULL]
             ELSE LET c == Clone(Alloc(h0, EmptyNode), h[id].left_)
                  IN [h |-> Free(c.h, tmpL), id |-> c.id]
        h1 == [L.h EXCEPT ![new].left_ = L.id]
        tmpR == NewId(h1)
        R == IF h[id].right_ = NULL THEN [h |-> h1, id |-> NULL]
             ELSE LET c == Clone(Alloc(h1, EmptyNode), h[id].right_)
                  IN [h |-> Free(c.h, tmpR), id |-> c.id]
    IN [h |-> [R.h EXCEPT ![new].right_ = R.id], id |-> new]

\* ------------------------------------------------------ derived views
\* the entries a result's pointers refer to
Deref(h, p) == h[p.node].center_[p.idx]
ResultEntries(h, ptrs) == [i \in 1..Len(ptrs) |-> Deref(h, ptrs[i])]
QueryEntries(h, r, val) == ResultEntries(h, TreeQuery(h, r, val))

Contains(e, v) == e.start <= v /\ v < e.end

RECURSIVE Count(_, _)
Count(s, x) == IF s = <<>> THEN 0
               ELSE (IF s[1] = x THEN 1 ELSE 0) + Count(Tail(s), x)

Range(s) == {s[i] : i \in 1..Len(s)}
SameBag(s1, s2) == \A x \in Range(s1) \cup Range(s2) : Count(s1, x) = Count(s2, x)

Stabbed(es, v) == SelectSeq(es, LAMBDA e : Contains(e, v))

\* ------------------------------------------------- addresses up to renaming
\* Node ids are addresses; only which pointer equals which matters.  After
\* each operation the live nodes are renumbered in preorder from the roots.
RECURSIVE Visit(_, _, _)
Visit(h, todo, acc) ==
    IF todo = <<>> THEN acc
    ELSE LET id == Head(todo)
         IN IF id = NULL \/ id \notin DOMAIN h \/ id \in Range(acc)
            THEN Visit(h, Tail(todo), acc)
            ELSE Visit(h, <<h[id].left_, h[id].right_>> \o Tail(todo), Append(acc, id))

RECURSIVE Ascending(_)
Ascending(S) == IF S = {} THEN <<>>
                ELSE LET m == CHOOSE x \in S : \A y \in S : x <= y
                     IN <<m>> \o Ascending(S \ {m})

NodeOrder(h, r) ==
    LET owned == Visit(h, [i \in 1..Len(TreeOrder) |-> r[TreeOrder[i]]], <<>>)
    IN owned \o Ascending(DOMAIN h \ Range(owned))

Rename(ord, id) ==
    IF id = NULL THEN NULL
    ELSE IF id \in Range(ord) THEN CHOOSE i \in 1..Len(ord) : ord[i] = id
    ELSE FREED

RenameHeap(h, ord) ==
    [i \in 1..Len(ord) |-> [h[ord[i]] EXCEPT !.left_ = Rename(ord, @),
                                            !.right_ = Rename(ord, @)]]

RenameResult(ord, res) ==
    [res EXCEPT !.results_ = [i \in 1..Len(@) |-> [@[i] EXCEPT !.node = Rename(ord, @)]]]

\* the memory after an operation: heap h with roots r
Memory(h, r) ==
    LET ord == NodeOrder(h, r)
    IN /\ heap' = RenameHeap(h, ord)
       /\ root_' = [t \in Trees |-> Rename(ord, r[t])]
       /\ result' = RenameResult(ord, result)
       /\ held' = RenameResult(ord, held)

\* the operation that acted last, the tree it acted on and the tree it read
\* (a copy's or a move's source); for a build or a clear, whether the tree
\* held nodes before it
OpFrom(o, t, u) == [op |-> o, t |-> t, from |-> u,
                    had |-> o \in {"build", "clear"} /\ root_[t] # NULL]
Op(o, t) == OpFrom(o, t, t)

\* ------------------------------------------------------------------ Init
\* one default-constructed tree; the other object does not exist yet
Init ==
    /\ alive = [t \in Trees |-> t = "A"]
    /\ root_ = [t \in Trees |-> NULL]
    /\ heap = <<>>
    /\ stored = [t \in Trees |-> <<>>]
    /\ copyOf = "none"
    /\ result = NoResult
    /\ held = NoResult
    /\ last = [op |-> "ctor", t |-> "A", from |-> "A", had |-> FALSE]
    /\ fault = "none"

Running == fault = "none"

\* ---------------------------------------------------------- constructors
DefaultConstruct(t) ==
    /\ Running /\ ~alive[t]
    /\ alive' = [alive EXCEPT ![t] = TRUE]
    /\ stored' = [stored EXCEPT ![t] = <<>>]
    /\ last' = Op("ctor", t)
    /\ UNCHANGED <<root_, heap, copyOf, result, held, fault>>

\* a build that returns early on an empty range and keeps the old root
BuildIntoMut(t, es, o) ==
    LET b == TreeNodeBuild(heap, es)
    IN \/ /\ b.ub
          /\ fault' = "signed_overflow"
          /\ last' = Op(o, t)
          /\ UNCHANGED <<alive, root_, heap, stored, copyOf, result, held>>
       \/ /\ b.id = DIVERGED
          /\ fault' = "stack_overflow"
          /\ last' = Op(o, t)
          /\ UNCHANGED <<alive, root_, heap, stored, copyOf, result, held>>
       \/ /\ b.id # DIVERGED
          /\ IF es = <<>> THEN Memory(heap, root_)
             ELSE Memory(Free(b.h, root_[t]), [root_ EXCEPT ![t] = b.id])
          /\ alive' = [alive EXCEPT ![t] = TRUE]
          /\ stored' = [stored EXCEPT ![t] = es]
          /\ last' = Op(o, t)
          /\ UNCHANGED <<copyOf, fault>>

\* IntervalTree::build: root_ = make_unique<TreeNode>(begin, end); the old
\* root is released after the new one is constructed
\* Where a sum overflowed, the behaviour is undefined: the addition traps,
\* or it wraps around and the construction goes on with the wrapped center.
BuildInto(t, es, o) ==
    LET b == TreeNodeBuild(heap, es)
    IN \/ /\ b.ub
          /\ fault' = "signed_overflow"
          /\ last' = Op(o, t)
          /\ UNCHANGED <<alive, root_, heap, stored, copyOf, result, held>>
       \/ /\ b.id = DIVERGED
          /\ fault' = "stack_overflow"
          /\ last' = Op(o, t)
          /\ UNCHANGED <<alive, root_, heap, stored, copyOf, result, held>>
       \/ /\ b.id # DIVERGED
          /\ Memory(Free(b.h, root_[t]), [root_ EXCEPT ![t] = b.id])
          /\ alive' = [alive EXCEPT ![t] = TRUE]
          /\ stored' = [stored EXCEPT ![t] = es]
          /\ last' = Op(o, t)
          /\ UNCHANGED <<copyOf, fault>>

RangeConstruct(t, es) ==
    /\ Running /\ ~alive[t]
    /\ BuildInto(t, es, "build")

Build(t, es) ==
    /\ Running /\ alive[t]
    /\ BuildInto(t, es, "build")

\* root_ = other.root_->clone().  With other.root_ null the call goes
\* through a null pointer, which is undefined: the process faults, or the
\* reads of the absent node yield zeroes (an empty node).
CopyInto(t, u, o) ==
    IF root_[u] = NULL
    THEN \/ /\ fault' = "null_deref"
            /\ last' = OpFrom(o, t, u)
            /\ UNCHANGED <<alive, root_, heap, stored, copyOf, result, held>>
         \/ /\ Memory(Free(Alloc(heap, EmptyNode), root_[t]),
                      [root_ EXCEPT ![t] = NewId(heap)])
            /\ alive' = [alive EXCEPT ![t] = TRUE]
            /\ stored' = [stored EXCEPT ![t] = stored[u]]
            /\ copyOf' = t
            /\ last' = OpFrom(o, t, u)
            /\ UNCHANGED fault
    ELSE LET c == Clone(heap, root_[u])
         IN /\ Memory(Free(c.h, root_[t]), [root_ EXCEPT ![t] = c.id])
            /\ alive' = [alive EXCEPT ![t] = TRUE]
            /\ stored' = [stored EXCEPT ![t] = stored[u]]
            /\ copyOf' = t
            /\ last' = OpFrom(o, t, u)
            /\ UNCHANGED fault

CopyConstruct(t, u) ==
    /\ Running /\ ~alive[t] /\ alive[u]
    /\ CopyInto(t, u, "copy")

\* if (this != &other) root_ = other.root_->clone();
CopyAssign(t, u) ==
    /\ Running /\ alive[t] /\ alive[u]
    /\ IF t # u THEN CopyInto(t, u, "copy")
       ELSE /\ last' = Op("copy", t)
            /\ UNCHANGED <<alive, root_, heap, stored, copyOf, result, held, fault>>

\* a move written as a swap of the two roots
MoveIntoMut(t, u, o) ==
    /\ Memory(heap, [root_ EXCEPT ![t] = root_[u], ![u] = root_[t]])
    /\ alive' = [alive EXCEPT ![t] = TRUE]
    /\ stored' = [stored EXCEPT ![t] = stored[u], ![u] = <<>>]
    /\ copyOf' = "none"
    /\ last' = OpFrom(o, t, u)
    /\ UNCHANGED fault

\* root_ = std::move(other.root_)
MoveInto(t, u, o) ==
    /\ Memory(Free(heap, root_[t]), [root_ EXCEPT ![t] = root_[u], ![u] = NULL])
    /\ alive' = [alive EXCEPT ![t] = TRUE]
    /\ stored' = [stored EXCEPT ![t] = stored[u], ![u] = <<>>]
    /\ copyOf' = "none"
    /\ last' = OpFrom(o, t, u)
    /\ UNCHANGED fault

MoveConstruct(t, u) ==
    /\ Running /\ ~alive[t] /\ alive[u]
    /\ MoveInto(t, u, "move")

\* if (this != &other) root_ = std::move(other.root_);
MoveAssign(t, u) ==
    /\ Running /\ alive[t] /\ alive[u]
    /\ IF t # u THEN MoveInto(t, u, "move")
       ELSE /\ last' = Op("move", t)
            /\ UNCHANGED <<alive, root_, heap, stored, copyOf, result, held, fault>>

\* ~IntervalTree() = default
Destroy(t) ==
    /\ Running /\ alive[t]
    /\ Memory(Free(heap, root_[t]), [root_ EXCEPT ![t] = NULL])
    /\ alive' = [alive EXCEPT ![t] = FALSE]
    /\ stored' = [stored EXCEPT ![t] = <<>>]
    /\ copyOf' = "none"
    /\ last' = Op("dtor", t)
    /\ UNCHANGED fault

\* ------------------------------------------------------------ operations
\* a self-adjusting insert that moves the root's center to the start of
\* the interval it has just stored
InsertMut(t, e) ==
    LET h0 == IF root_[t] # NULL THEN TreeNodeInsert(heap, root_[t], e)
              ELSE Alloc(heap, Leaf(e))
        h == IF root_[t] # NULL THEN [h0 EXCEPT ![root_[t]].x_center_ = e.start]
             ELSE h0
        r == IF root_[t] # NULL THEN root_ ELSE [root_ EXCEPT ![t] = NewId(heap)]
    IN /\ Running /\ alive[t]
       /\ Memory(h, r)
       /\ stored' = [stored EXCEPT ![t] = Append(stored[t], e)]
       /\ last' = Op("insert", t)
       /\ UNCHANGED <<alive, copyOf, fault>>

\* IntervalTree::insert.  A new leaf computes start + end: where that sum
\* overflows, the addition traps or the leaf gets the wrapped center.
Insert(t, e) ==
    LET h == IF root_[t] # NULL THEN TreeNodeInsert(heap, root_[t], e)
             ELSE Alloc(heap, Leaf(e))
        r == IF root_[t] # NULL THEN root_ ELSE [root_ EXCEPT ![t] = NewId(heap)]
        leaf == DOMAIN h # DOMAIN heap
    IN /\ Running /\ alive[t]
       /\ \/ /\ leaf /\ Overflows(e.start, e.end)
             /\ fault' = "signed_overflow"
             /\ last' = Op("insert", t)
             /\ UNCHANGED <<alive, root_, heap, stored, copyOf, result, held>>
          \/ /\ Memory(h, r)
             /\ stored' = [stored EXCEPT ![t] = Append(stored[t], e)]
             /\ last' = Op("insert", t)
             /\ UNCHANGED <<alive, copyOf, fault>>

\* a self-adjusting query that re-centers the root on the query point
QueryMut(t, val) ==
    /\ Running /\ alive[t]
    /\ result' = [t |-> t, val |-> val, results_ |-> TreeQuery(heap, root_[t], val)]
    /\ heap' = IF root_[t] = NULL THEN heap
               ELSE [heap EXCEPT ![root_[t]].x_center_ = val]
    /\ UNCHANGED <<alive, root_, stored, copyOf, held, last, fault>>

\* a query that collects into one buffer shared by all result objects
QueryStatic(t, val) ==
    /\ Running /\ alive[t]
    /\ result' = [t |-> t, val |-> val, results_ |-> TreeQuery(heap, root_[t], val)]
    /\ held' = IF held = NoResult THEN held
               ELSE [held EXCEPT !.results_ = TreeQuery(heap, root_[t], val)]
    /\ UNCHANGED <<alive, root_, heap, stored, copyOf, last, fault>>

\* IntervalTree::query
Query(t, val) ==
    /\ Running /\ alive[t]
    /\ result' = [t |-> t, val |-> val, results_ |-> TreeQuery(heap, root_[t], val)]
    /\ UNCHANGED <<alive, root_, heap, stored, copyOf, held, last, fault>>

\* a clear that empties the root's own vectors and keeps the node
ClearMut(t) ==
    /\ Running /\ alive[t]
    /\ IF root_[t] = NULL THEN Memory(heap, root_)
       ELSE Memory([heap EXCEPT ![root_[t]].center_ = <<>>,
                                ![root_[t]].index_sorted_by_start_ = <<>>,
                                ![root_[t]].index_sorted_by_end_ = <<>>], root_)
    /\ stored' = [stored EXCEPT ![t] = <<>>]
    /\ last' = Op("clear", t)
    /\ UNCHANGED <<alive, copyOf, fault>>

\* IntervalTree::clear: root_.reset(nullptr)
Clear(t) ==
    /\ Running /\ alive[t]
    /\ Memory(Free(heap, root_[t]), [root_ EXCEPT ![t] = NULL])
    /\ stored' = [stored EXCEPT ![t] = <<>>]
    /\ last' = Op("clear", t)
    /\ UNCHANGED <<alive, copyOf, fault>>

\* ~IntervalTreeResult(): the caller lets the result go out of scope
Release ==
    /\ Running /\ result # NoResult
    /\ result' = NoResult
    /\ UNCHANGED <<alive, root_, heap, stored, copyOf, held, last, fault>>

\* IntervalTreeResult is movable: the caller keeps the result in a variable
\* that outlives the next query
Keep ==
    /\ Running /\ result # NoResult /\ held = NoResult
    /\ held' = result
    /\ result' = NoResult
    /\ UNCHANGED <<alive, root_, heap, stored, copyOf, last, fault>>

\* ~IntervalTreeResult() of the kept result
Drop ==
    /\ Running /\ held # NoResult
    /\ held' = NoResult
    /\ UNCHANGED <<alive, root_, heap, stored, copyOf, result, last, fault>>

\* ------------------------------------------------------- specifications
\* As in example.cpp, a query result is let go before a tree is changed.
Idle == result = NoResult /\ held = NoResult

\* the operations on tree object t; the caller passes entries of E, at
\* most b of them to a build, and a tree holds at most MaxEntries
Lifetime(t, E, b) ==
    \/ Idle /\ DefaultConstruct(t)
    \/ \E es \in SeqsUpTo(E, b) : Idle /\ RangeConstruct(t, es)
    \/ Idle /\ Destroy(t)

Mutation(t, E, b) ==
    \/ \E es \in SeqsUpTo(E, b) : Idle /\ Build(t, es)
    \/ \E e \in E : Idle /\ Len(stored[t]) < MaxEntries /\ Insert(t, e)
    \/ Idle /\ Clear(t)
    \/ Idle /\ CopyAssign(t, t)
    \/ Idle /\ MoveAssign(t, t)

Observation(t) ==
    \/ \E val \in Coord : Idle /\ Query(t, val)
    \/ Release

\* one tree; callers respect the documented precondition end > start
Next ==
    \/ Lifetime("A", ValidEntry, MaxBuildLen)
    \/ Mutation("A", ValidEntry, MaxBuildLen)
    \/ Observation("A")
Spec == Init /\ [][Next]_vars

\* callers that may pass any interval
NextUnchecked ==
    \/ Lifetime("A", Entry, MaxBuildLen)
    \/ Mutation("A", Entry, MaxBuildLen)
    \/ Observation("A")
SpecUnchecked == Init /\ [][NextUnchecked]_vars

\* two tree objects: A, and B constructed from A, assigned in both
\* directions; the entries are the two unit intervals that meet at 0, a
\* build takes at most MaxBuildLen - 1 of them
UnitEntry == {e \in ValidEntry : e.end = e.start + 1 /\ e.end \in {0, 1}}

Construction(t, u) ==
    \/ Idle /\ CopyConstruct(t, u)
    \/ Idle /\ MoveConstruct(t, u)
    \/ Idle /\ Destroy(t)

Assignment(t, u) ==
    \/ Idle /\ CopyAssign(t, u)
    \/ Idle /\ MoveAssign(t, u)

NextPair ==
    \/ \E t \in Trees : Mutation(t, UnitEntry, MaxBuildLen - 1)
    \/ \E t \in Trees : Observation(t)
    \/ Construction("B", "A")
    \/ \E t \in Trees : \E u \in Trees \ {t} : Assignment(t, u)
SpecPair == Init /\ [][NextPair]_vars

\* one tree and a second object that is copy constructed from it at any
\* moment and later destroyed; no queries.  The intervals all contain -1
\* and differ in start and in end, so center lists grow and need sorting.
Stacked == {e \in ValidEntry : Contains(e, -1)}

Copying(t, u) ==
    \/ Idle /\ CopyConstruct(t, u)
    \/ Idle /\ Destroy(t)

NextCopy ==
    \/ Lifetime("A", Stacked, MaxBuildLen)
    \/ Mutation("A", Stacked, MaxBuildLen)
    \/ Copying("B", "A")
SpecCopy == Init /\ [][NextCopy]_vars

\* a tree constructed from an empty range, rebuilt from the empty sequence
\* at any moment, and otherwise only inserted into and queried
EmptyBuilt == TreeNodeBuild(<<>>, <<>>)

InitEmpty ==
    /\ alive = [t \in Trees |-> t = "A"]
    /\ root_ = [t \in Trees |-> IF t = "A" THEN EmptyBuilt.id ELSE NULL]
    /\ heap = EmptyBuilt.h
    /\ stored = [t \in Trees |-> <<>>]
    /\ copyOf = "none"
    /\ result = NoResult
    /\ held = NoResult
    /\ last = [op |-> "build", t |-> "A", from |-> "A", had |-> FALSE]
    /\ fault = "none"

NextEmpty ==
    \/ Idle /\ Build("A", <<>>)
    \/ \E e \in ValidEntry : Idle /\ Len(stored["A"]) < MaxEntries /\ Insert("A", e)
    \/ Observation("A")
SpecEmpty == InitEmpty /\ [][NextEmpty]_vars

\* a caller that holds one result while it queries again; the tree is
\* changed only when no result is outstanding
Further(t) ==
    \/ Keep
    \/ \E val \in Coord : result = NoResult /\ held # NoResult /\ Query(t, val)
    \/ Drop

NextHeld ==
    \/ Lifetime("A", ValidEntry, MaxBuildLen)
    \/ Mutation("A", ValidEntry, MaxBuildLen)
    \/ Observation("A")
    \/ Further("A")
SpecHeld == Init /\ [][NextHeld]_vars

\* a caller that changes the tree while a result is outstanding: nothing
\* in the code prevents it
Stale(t, E, b) ==
    \/ \E es \in SeqsUpTo(E, b) : ~Idle /\ Build(t, es)
    \/ \E e \in E : ~Idle /\ Len(stored[t]) < MaxEntries /\ Insert(t, e)
    \/ ~Idle /\ Clear(t)

NextStale ==
    \/ Lifetime("A", ValidEntry, MaxBuildLen)
    \/ Mutation("A", ValidEntry, MaxBuildLen)
    \/ Observation("A")
    \/ Stale("A", ValidEntry, MaxBuildLen)
SpecStale == Init /\ [][NextStale]_vars

\* ------------------------------------------------------------------ claims
\* the tree freshly built from the entries es, in a memory of its own
Fresh(es) == TreeNodeBuild(<<>>, es)
FreshQuery(es, v) == LET f == Fresh(es) IN QueryEntries(f.h, f.id, v)

HasChild(t) == root_[t] # NULL /\ (heap[root_[t]].left_ # NULL \/ heap[root_[t]].right_ # NULL)
\* the documented precondition on an interval: end > start
ValidInterval(e) == e.end > e.start
AllValid(es) == \A i \in 1..Len(es) : ValidInterval(es[i])
\* IntervalTreeResult::size
ResultSize(ptrs) == Len(ptrs)

\* C1: every build (or range construction) from a non-empty sequence of
\* intervals with end > start yields a tree, and for every point v its
\* query(v) returns exactly the entries e of the sequence with
\* e.start <= v < e.end.
C1_BuildQueryExact ==
    last.op = "build"
    => /\ Running
       /\ (stored[last.t] # <<>> /\ AllValid(stored[last.t]))
          => \A v \in Coord :
                Range(QueryEntries(heap, root_[last.t], v))
                    = {e \in Range(stored[last.t]) : Contains(e, v)}

\* C2: after build followed by any inserts of valid intervals, the tree
\* freshly built from the original entries followed by the inserted ones
\* exists, and query(v) returns for every v the same entries (as a
\* multiset, so the same membership) as that tree.
C2_InsertAsBuild ==
    \A t \in Trees :
        (Running /\ alive[t] /\ AllValid(stored[t]))
        => /\ Fresh(stored[t]).id # DIVERGED
           /\ \A v \in Coord :
                 SameBag(QueryEntries(heap, root_[t], v), FreshQuery(stored[t], v))

\* C3: no deduplication: for every v the result holds each stored entry
\* that contains v exactly once (its pointers are pairwise distinct), so
\* size() is the number of stored entries with start <= v < end, equal
\* entries counted separately.
C3_MultiMapCount ==
    \A t \in Trees :
        (Running /\ alive[t] /\ AllValid(stored[t]))
        => \A v \in Coord :
              LET ptrs == TreeQuery(heap, root_[t], v)
              IN /\ Cardinality(Range(ptrs)) = Len(ptrs)
                 /\ ResultSize(ptrs) = Len(Stabbed(stored[t], v))
                 /\ SameBag(ResultEntries(heap, ptrs), Stabbed(stored[t], v))

\* C5: after clear(), in any state reached by builds and inserts, the tree
\* is in the state of a freshly constructed tree (no root) and query(v)
\* returns an empty result, of size 0, for every v, without a fault.
C5_ClearEmpties ==
    last.op = "clear"
    => /\ Running
       /\ root_[last.t] = NULL
       /\ \A v \in Coord :
             /\ TreeQuery(heap, root_[last.t], v) = <<>>
             /\ ResultSize(TreeQuery(heap, root_[last.t], v)) = 0

\* a clear of a tree that held nodes
C5_Witness == last.op = "clear" /\ last.had /\ Running

\* C6: whatever the tree held before, after build(entries) has returned
\* every query(v) returns exactly the result of a tree freshly built from
\* entries, and with it no entry that was stored before the build.
C6_BuildReplaces ==
    (last.op = "build" /\ Running)
    => \A v \in Coord :
          QueryEntries(heap, root_[last.t], v) = FreshQuery(stored[last.t], v)

\* a build over a tree that held nodes, and a point whose result is not empty
C6_Witness ==
    /\ last.op = "build" /\ last.had /\ Running
    /\ \E v \in Coord : QueryEntries(heap, root_[last.t], v) # <<>>

\* C8: a query changes no part of the tree (root, x_center, center list,
\* index permutations, child links of every node), so the same query on
\* the tree it leaves behind returns the same result.
C8_QueryReadOnly ==
    [][\A t \in Trees : \A v \in Coord :
          Query(t, v) => /\ root_' = root_
                         /\ heap' = heap
                         /\ TreeQuery(heap', root_'[t], v) = result'.results_]_vars

\* a query that returned entries of a tree with a child
C8_Witness == result # NoResult /\ result.results_ # <<>> /\ HasChild(result.t)

\* C9: in every tree state reached by builds and inserts of valid
\* intervals, a stored entry [s, e) is returned by query(s) and not by
\* query(e); and at every node a query point equal to x_center takes the
\* val <= x_center branch: the ascending-start scan, then the left child.
C9_HalfOpenBoundary ==
    \A t \in Trees :
        (Running /\ alive[t] /\ AllValid(stored[t]))
        => /\ \A i \in 1..Len(stored[t]) :
                 LET e == stored[t][i]
                 IN /\ e \in Range(QueryEntries(heap, root_[t], e.start))
                    /\ e \notin Range(QueryEntries(heap, root_[t], e.end))
           /\ \A n \in Reach(heap, root_[t]) :
                 LET x == heap[n].x_center_
                 IN TreeNodeQuery(heap, n, x)
                       = ScanByStart(heap, n, x, 1)
                         \o (IF heap[n].left_ # NULL
                             THEN TreeNodeQuery(heap, heap[n].left_, x) ELSE <<>>)

\* the step is an insert, a clear or a build applied to tree t
Mutates(t) ==
    /\ result' = result
    /\ last'.t = t
    /\ last'.op \in {"insert", "clear", "build"}

\* C4: once one tree has been copy-constructed or copy-assigned from the
\* other, the two share no node (so no center list and no index array),
\* and an insert, clear or build applied to either leaves the result of
\* query(v) on the other unchanged for every v.
C4_CopyIndependence ==
    /\ [](Reach(heap, root_["A"]) \cap Reach(heap, root_["B"]) = {})
    /\ [][\A t \in Trees : \A u \in Trees \ {t} :
            (copyOf # "none" /\ alive[u] /\ Mutates(t))
            => \A v \in Coord :
                  QueryEntries(heap', root_'[u], v) = QueryEntries(heap, root_[u], v)]_vars

\* B was copied from A, which holds entries, and an insert then gave B a
\* child node that A does not have
C4_Witness ==
    /\ copyOf = "B" /\ last.op = "insert" /\ last.t = "B"
    /\ root_["A"] # NULL /\ HasChild("B") /\ ~HasChild("A")
    /\ stored["A"] # stored["B"]

\* C7: a move (construction or assignment) from tree u into a distinct
\* tree t leaves u in the state of a freshly constructed tree (no root,
\* every query empty), and t answers every query as u did just before;
\* a move assignment of a tree to itself leaves its answers unchanged.
C7_MoveTransfers ==
    [][/\ \A t \in Trees : \A u \in Trees \ {t} :
            (MoveConstruct(t, u) \/ MoveAssign(t, u))
            => /\ alive'[u] /\ root_'[u] = NULL
               /\ \A v \in Coord : TreeQuery(heap', root_'[u], v) = <<>>
               /\ \A v \in Coord :
                     QueryEntries(heap', root_'[t], v) = QueryEntries(heap, root_[u], v)
       /\ \A t \in Trees :
            MoveAssign(t, t)
            => \A v \in Coord :
                  QueryEntries(heap', root_'[t], v) = QueryEntries(heap, root_[t], v)]_vars

\* a tree with a child has just been moved into another tree object
C7_Witness ==
    /\ last.op = "move" /\ last.t # last.from
    /\ HasChild(last.t)
    /\ alive[last.from] /\ root_[last.from] = NULL

\* C10: an interval with end <= start given to insert or build is never
\* admitted: no node of a tree ever holds such an entry, and no query ever
\* returns one (an entry that contains no point at all).
C10_InvalidRejected ==
    \A t \in Trees :
        alive[t]
        => /\ \A n \in Reach(heap, root_[t]) : AllValid(heap[n].center_)
           /\ \A v \in Coord :
                 \A e \in Range(QueryEntries(heap, root_[t], v)) : ValidInterval(e)

\* the result objects the caller holds
Outstanding == {result, held} \ {NoResult}
\* p points at an element of the center list of a node of tree t
ValidPtr(t, p) ==
    /\ p.node \in Reach(heap, root_[t])
    /\ p.idx \in 1..Len(heap[p.node].center_)

\* C11: while the tree is not changed after a query, every element of the
\* result refers to an entry still stored in the tree, and the result is
\* what the query returned (what the same query returns now); further
\* queries leave the results obtained earlier as they were.
C11_ResultStaysValid ==
    \A r \in Outstanding :
        /\ \A i \in 1..Len(r.results_) :
              /\ ValidPtr(r.t, r.results_[i])
              /\ Deref(heap, r.results_[i]) \in Range(stored[r.t])
        /\ r.results_ = TreeQuery(heap, root_[r.t], r.val)

\* two results of different points are held at once, both with entries
C11_Witness ==
    /\ held # NoResult /\ result # NoResult
    /\ held.val # result.val
    /\ held.results_ # <<>> /\ result.results_ # <<>>
    /\ held.results_ # result.results_

\* C18: an insert, build or clear after a query invalidates the result
\* handles that are outstanding: no handle the caller still holds can be
\* dereferenced to an entry that the change has discarded.
C18_HandlesInvalidated ==
    \A r \in Outstanding :
        \A i \in 1..Len(r.results_) : ValidPtr(r.t, r.results_[i])

\* the entries held by the nodes of the subtree rooted at id
RECURSIVE SubtreeEntries(_, _)
SubtreeEntries(h, id) ==
    IF id = NULL THEN <<>>
    ELSE h[id].center_ \o SubtreeEntries(h, h[id].left_) \o SubtreeEntries(h, h[id].right_)

\* C12: in every state reached by builds, inserts, clears, copies and
\* moves with valid intervals, every entry e in the center list of a node
\* satisfies e.start <= x_center < e.end for the node's x_center.
C12_CenterCoversCenter ==
    \A t \in Trees :
        (Running /\ alive[t] /\ AllValid(stored[t]))
        => \A n \in Reach(heap, root_[t]) :
              \A i \in 1..Len(heap[n].center_) :
                 /\ heap[n].center_[i].start <= heap[n].x_center_
                 /\ heap[n].x_center_ < heap[n].center_[i].end

\* C13: in every state reached by builds and inserts, for every node n
\* every entry in n's left subtree has end <= n.x_center and every entry
\* in n's right subtree has start > n.x_center; so the subtree a query of
\* v does not descend into holds no entry that contains v.
C13_SubtreesSeparated ==
    \A t \in Trees :
        (Running /\ alive[t])
        => \A n \in Reach(heap, root_[t]) :
              LET x == heap[n].x_center_
                  L == SubtreeEntries(heap, heap[n].left_)
                  R == SubtreeEntries(heap, heap[n].right_)
              IN /\ \A i \in 1..Len(L) : L[i].end <= x
                 /\ \A i \in 1..Len(R) : R[i].start > x
                 /\ \A v \in Coord :
                       Stabbed(IF TakesStartBranch(v, x) THEN R ELSE L, v) = <<>>

\* an insert has just put an entry into a child of the root
C13_Witness ==
    /\ last.op = "insert" /\ HasChild("A") /\ Running
    /\ SubtreeEntries(heap, root_["A"]) # heap[root_["A"]].center_
    /\ stored["A"][Len(stored["A"])] \notin Range(heap[root_["A"]].center_)

\* C14: build from a finite non-empty sequence of valid intervals
\* terminates: no child construction receives the whole input of its
\* parent, so the recursion does not run until the stack is exhausted.
C14_BuildTerminates == fault # "stack_overflow"

\* C15: copy construction and copy assignment are defined for every state
\* of the source tree, the empty tree (no root node) included: the copy
\* completes without reading through a null root, and afterwards the
\* copy answers every query as its source does.
C15_CopyOfAnyState ==
    last.op = "copy"
    => /\ fault = "none"
       /\ \A v \in Coord :
             SameBag(QueryEntries(heap, root_[last.t], v),
                     QueryEntries(heap, root_[last.from], v))

\* the tree below id as a value that does not depend on node identities:
\* <<>> for no node, else one record holding the node's fields and the
\* values of its two subtrees
RECURSIVE TreeOf(_, _)
TreeOf(h, id) ==
    IF id = NULL THEN <<>>
    ELSE <<[x_center_ |-> h[id].x_center_,
            center_ |-> h[id].center_,
            index_sorted_by_start_ |-> h[id].index_sorted_by_start_,
            index_sorted_by_end_ |-> h[id].index_sorted_by_end_,
            left_ |-> TreeOf(h, h[id].left_),
            right_ |-> TreeOf(h, h[id].right_)]>>

\* tree b is tree a with entry e added in exactly one place: appended to
\* the center list of one existing node, or as one new leaf that holds
\* only e; every other node is as it was
RECURSIVE OnePlace(_, _, _)
OnePlace(a, b, e) ==
    IF a = <<>>
    THEN /\ b # <<>>
         /\ b[1].center_ = <<e>> /\ b[1].left_ = <<>> /\ b[1].right_ = <<>>
    ELSE /\ b # <<>>
         /\ b[1].x_center_ = a[1].x_center_
         /\ \/ /\ b[1].center_ = Append(a[1].center_, e)
               /\ b[1].left_ = a[1].left_ /\ b[1].right_ = a[1].right_
            \/ /\ b[1].center_ = a[1].center_ /\ b[1].right_ = a[1].right_
               /\ b[1].index_sorted_by_start_ = a[1].index_sorted_by_start_
               /\ b[1].index_sorted_by_end_ = a[1].index_sorted_by_end_
               /\ OnePlace(a[1].left_, b[1].left_, e)
            \/ /\ b[1].center_ = a[1].center_ /\ b[1].left_ = a[1].left_
               /\ b[1].index_sorted_by_start_ = a[1].index_sorted_by_start_
               /\ b[1].index_sorted_by_end_ = a[1].index_sorted_by_end_
               /\ OnePlace(a[1].right_, b[1].right_, e)

\* C16: an insert that completes changes the tree in exactly one place:
\* the entry is appended to the center list of one existing node, or one
\* new leaf holding only that entry is attached where no child was; all
\* existing nodes keep their x_center, their child links and their
\* entries (no rebalancing).
C16_InsertOnePlace ==
    [][\A t \in Trees : \A e \in Entry :
          (/\ last'.op = "insert" /\ last'.t = t /\ Running'
           /\ stored'[t] = Append(stored[t], e))
          => OnePlace(TreeOf(heap, root_[t]), TreeOf(heap', root_'[t]), e)]_vars

\* an insert has appended to the center list of the root, which already
\* held an entry
C16_Witness ==
    /\ last.op = "insert" /\ Running /\ root_["A"] # NULL
    /\ Len(heap[root_["A"]].center_) = 2

\* idx lists every position of center exactly once
IsPermutation(idx, center) ==
    /\ Len(idx) = Len(center)
    /\ Range(idx) = 1..Len(center)

\* C17: in every node of every tree reached by builds, inserts and
\* copies, index_sorted_by_start_ and index_sorted_by_end_ are each a
\* permutation of the positions of center_; reading center_ through the
\* first gives ascending starts and through the second ascending ends,
\* also after an insert has appended to an existing center list.
C17_IndexArraysSorted ==
    \A t \in Trees :
        (Running /\ alive[t])
        => \A n \in Reach(heap, root_[t]) :
              LET c == heap[n].center_
                  s == heap[n].index_sorted_by_start_
                  d == heap[n].index_sorted_by_end_
              IN /\ IsPermutation(s, c) /\ IsPermutation(d, c)
                 /\ \A i \in 1..Len(c) : \A j \in i..Len(c) :
                       /\ c[s[i]].start <= c[s[j]].start
                       /\ c[d[i]].end <= c[d[j]].end

\* an insert appended an entry that starts before the one already in the
\* center list, so the start order differs from the storage order; the
\* tree was then copied
C17_Witness ==
    /\ alive["B"] /\ root_["B"] # NULL /\ Running
    /\ Len(heap[root_["B"]].center_) = 2
    /\ heap[root_["B"]].index_sorted_by_start_ = <<2, 1>>
    /\ TreeOf(heap, root_["B"]) = TreeOf(heap, root_["A"])

\* x lies inside the range covered by the non-empty sequence es
InsideCovered(x, es) ==
    /\ FoldMinStart(es, Len(es)) <= x
    /\ x < FoldMaxEnd(es, Len(es))

\* the minimum start and the maximum end of es add up inside the type
SumFits(es) == ~Overflows(FoldMinStart(es, Len(es)), FoldMaxEnd(es, Len(es)))

\* C19: right after a build from a non-empty sequence of valid intervals,
\* every node has t_min <= x_center < t_max for the minimum start t_min
\* and maximum end t_max of the entries it was created from (the entries
\* of its subtree); right after an insert, a single-entry leaf holding
\* the inserted interval has start <= x_center < end; in both cases
\* provided t_min + t_max does not overflow.  Division truncates toward
\* zero and the coordinates are negative, mixed-sign and adjacent.
C19_CenterInsideRange ==
    \A t \in Trees :
        (Running /\ alive[t] /\ last.t = t /\ AllValid(stored[t]))
        => \A n \in Reach(heap, root_[t]) :
              LET S == SubtreeEntries(heap, n)
              IN /\ (last.op = "build" /\ S # <<>> /\ SumFits(S))
                    => InsideCovered(heap[n].x_center_, S)
                 /\ (/\ last.op = "insert"
                     /\ heap[n].left_ = NULL /\ heap[n].right_ = NULL
                     /\ heap[n].center_ = <<stored[t][Len(stored[t])]>>
                     /\ SumFits(heap[n].center_))
                    => InsideCovered(heap[n].x_center_, heap[n].center_)

\* an insert made a leaf for the adjacent negative interval [-1,0): the
\* truncated midpoint is 0 = end, and the guard moved the center to -1
C19_Witness ==
    /\ last.op = "insert" /\ Running /\ HasChild("A")
    /\ \E n \in Reach(heap, root_["A"]) \ {root_["A"]} :
          /\ heap[n].center_ = <<[start |-> -1, end |-> 0, value |-> 0]>>
          /\ heap[n].x_center_ = -1
          /\ stored["A"][Len(stored["A"])].start = -1

\* C20: a build from the empty sequence completes and leaves a tree that
\* answers every query with the empty result; every valid entry inserted
\* afterwards is returned by exactly the queries whose point it contains.
C20_EmptyBuildThenInsert ==
    /\ last.op = "build" => (Running /\ \A v \in Coord : TreeQuery(heap, root_["A"], v) = <<>>)
    /\ Running => \A v \in Coord :
                     SameBag(QueryEntries(heap, root_["A"], v), Stabbed(stored["A"], v))

====
